---- MODULE Spec2Model ----
(***************************************************************************)
(* ScreenBuf of logrhythm/promptui (screenbuf/screenbuf.go): a line        *)
(* oriented terminal renderer.  Write queues one line with its ANSI        *)
(* cursor sequences in a bytes.Buffer, Flush hands the buffer to the       *)
(* io.Writer and queues the move-ups that rewind the cursor for the next   *)
(* frame, Reset/Clear wipe the frame drawn before.                         *)
(*                                                                         *)
(* Bytes are integers 0..255, a line or a buffer is a sequence of bytes.   *)
(***************************************************************************)
EXTENDS Integers, Sequences, FiniteSets, TLC

VARIABLES
    buf,         \* s.buf: the bytes queued and not yet handed to s.w
    reset,       \* s.reset
    cursor,      \* s.cursor
    height,      \* s.height
    prevBufLen,  \* s.prevBufLen
    isSelect,    \* s.isSelect (TRUE: no wrap accounting)
    out,         \* the bytes s.w accepted during the last call (<<>>: none)
    outCalls,    \* the number of s.w.Write calls made by the last call
    termRow,     \* terminal cursor row, moved by the bytes s.w accepted
    lastOp,      \* the last method called
    lastLine,    \* its argument (Write, WriteString), else <<>>
    lastWidth,   \* what terminal.Width() answered during it, else 0
    lastErr,     \* the error it returned ("nil": none)
    lastN,       \* the int it returned (Write, WriteString), else 0
    run,         \* n: the calls so far are n Writes of terminator-free lines; -1 otherwise
    frame,       \* lines written since the last successful Flush, NoFrame once something else interfered
    replay,      \* the frame the last successful Flush closed, while this frame repeats it
    queued,      \* the k >= 0 moveUp a successful Flush queued, while they head the
                 \* buffer; -1 before the first such Flush, once Reset dropped
                 \* them and once the sink took bytes of a failing Flush
    proto        \* "kept" while the calls follow the render protocol, "broken" after one
                 \* that does not, "text" once a written line moved the cursor itself

vars == <<buf, reset, cursor, height, prevBufLen, isSelect, out, outCalls,
          termRow, lastOp, lastLine, lastWidth, lastErr, lastN, run, frame,
          replay, queued, proto>>

----------------------------------------------------------------------------
(* Bounds of the model. *)

\* Write is not called on a frame of more than MaxHeight rows.
MaxHeight == 3
\* No call appends to a buffer that already holds more than MaxBuf bytes.
MaxBuf == 36
\* No Flush moves the terminal cursor further than MaxRow rows from row 0.
MaxRow == 3

----------------------------------------------------------------------------
(* Bytes. *)

BEL == 7
LF == 10
CR == 13
ESC == 27
CSI8 == 155          \* U+009B, in UTF-8 the bytes 194 155
LBRACKET == 91       \* "["

\* esc = "\033["
esc == <<ESC, LBRACKET>>
\* clearLine = esc + "2K\r"
clearLine == esc \o <<50, 75, CR>>
\* moveUp = esc + "1A"
moveUp == esc \o <<49, 65>>
\* moveDown = esc + "1B"
moveDown == esc \o <<49, 66>>

RECURSIVE Rep(_, _)
\* n copies of the byte sequence s, one after the other (a for loop of buf.Write(s)).
Rep(s, n) == IF n <= 0 THEN <<>> ELSE s \o Rep(s, n - 1)

\* Go's integer division and remainder truncate toward zero.
GoDiv(a, b) == IF a >= 0 THEN a \div b ELSE -((-a) \div b)
GoRem(a, b) == a - b * GoDiv(a, b)

\* (changed for C3) bytes.ContainsAny(b, "\n"): the "\r" is forgotten.
ContainsLFOnly(b) == \E i \in 1..Len(b) : b[i] = LF

\* bytes.ContainsAny(b, "\r\n")
ContainsCRLF(b) == \E i \in 1..Len(b) : b[i] \in {CR, LF}

----------------------------------------------------------------------------
(* utf8.RuneCountInString *)

IsCont(c) == c >= 128 /\ c <= 191

\* The size in bytes that the first-byte table of unicode/utf8 gives c (0: invalid).
FirstSize(c) ==
    IF c < 128 THEN 1
    ELSE IF c >= 194 /\ c <= 223 THEN 2
    ELSE IF c >= 224 /\ c <= 239 THEN 3
    ELSE IF c >= 240 /\ c <= 244 THEN 4
    ELSE 0

\* acceptRanges: the values the second byte may take after first byte c.
AcceptLo(c) == IF c = 224 THEN 160 ELSE IF c = 240 THEN 144 ELSE 128
AcceptHi(c) == IF c = 237 THEN 159 ELSE IF c = 244 THEN 143 ELSE 191

\* The bytes the rune starting at s[i] takes; an invalid or short encoding takes 1.
RuneSize(s, i) ==
    LET c == s[i]
        size == FirstSize(c)
    IN  IF size <= 1 THEN 1
        ELSE IF i + size - 1 > Len(s) THEN 1
        ELSE IF s[i + 1] < AcceptLo(c) \/ s[i + 1] > AcceptHi(c) THEN 1
        ELSE IF size = 2 THEN 2
        ELSE IF ~IsCont(s[i + 2]) THEN 1
        ELSE IF size = 3 THEN 3
        ELSE IF ~IsCont(s[i + 3]) THEN 1
        ELSE 4

RECURSIVE RuneCountFrom(_, _)
RuneCountFrom(s, i) ==
    IF i > Len(s) THEN 0 ELSE 1 + RuneCountFrom(s, i + RuneSize(s, i))

RuneCountInString(s) == RuneCountFrom(s, 1)

----------------------------------------------------------------------------
(* re.ReplaceAllString(string(b), ""), re = regexp.MustCompile(ansi).       *)
(* Every byte the pattern names is ASCII but U+009B, so the pattern is      *)
(* matched on the bytes; the match is the one a backtracking search finds   *)
(* first (Go's leftmost-first rule).  A match is given by the index after   *)
(* its last byte, 0 meaning no match.                                       *)

\* \d
Digits == 48..57
\* [a-zA-Z\d]
Alnums == Digits \cup (65..90) \cup (97..122)
\* [[\]()#;?]
Intermediates == {91, 93, 40, 41, 35, 59, 63}
\* [\dA-PRZcf-ntqry=><~]
Finals ==
    Digits \cup (65..80) \cup (102..110)
           \cup {82, 90, 99, 116, 113, 114, 121, 61, 62, 60, 126}

RECURSIVE RunLen(_, _, _, _)
\* How many of the bytes s[p], s[p+1], ... are in the class, up to max of them.
RunLen(s, p, max, class) ==
    IF max = 0 \/ p > Len(s) \/ s[p] \notin class THEN 0
    ELSE 1 + RunLen(s, p + 1, max - 1, class)

\* [\dA-PRZcf-ntqry=><~]
MatchFinal(s, p) == IF p <= Len(s) /\ s[p] \in Finals THEN p + 1 ELSE 0

RECURSIVE MatchSemis(_, _)
RECURSIVE TrySemis(_, _, _)
\* (?:;\d{0,4})* and the final byte, from p: one more group first, the longest first.
MatchSemis(s, p) ==
    IF p <= Len(s) /\ s[p] = 59
    THEN LET r == TrySemis(s, p + 1, RunLen(s, p + 1, 4, Digits))
         IN  IF r # 0 THEN r ELSE MatchFinal(s, p)
    ELSE MatchFinal(s, p)
\* The rest of the pattern after k, k - 1, ..., 0 digits at q.
TrySemis(s, q, k) ==
    IF k < 0 THEN 0
    ELSE LET r == MatchSemis(s, q + k)
         IN  IF r # 0 THEN r ELSE TrySemis(s, q, k - 1)

RECURSIVE TryDigits(_, _, _)
\* \d{1,4} taking k, k - 1, ..., 1 digits at p, then the rest.
TryDigits(s, p, k) ==
    IF k < 1 THEN 0
    ELSE LET r == MatchSemis(s, p + k)
         IN  IF r # 0 THEN r ELSE TryDigits(s, p, k - 1)

\* (?:(?:\d{1,4}(?:;\d{0,4})*)?[\dA-PRZcf-ntqry=><~])
MatchCSI(s, p) ==
    LET r == TryDigits(s, p, RunLen(s, p, 4, Digits))
    IN  IF r # 0 THEN r ELSE MatchFinal(s, p)

\* The bytes of a BEL-terminated parameter string.
AlnumsOrSemi == Alnums \cup {59}

\* (?:(?:[a-zA-Z\d]*(?:;[a-zA-Z\d]*)*)?\x07): BEL is in neither class, so the
\* parameter string is the whole run of letters, digits and semicolons.
MatchOSC(s, p) ==
    LET q == p + RunLen(s, p, Len(s), AlnumsOrSemi)
    IN  IF q <= Len(s) /\ s[q] = BEL THEN q + 1 ELSE 0

RECURSIVE TryIntermediates(_, _, _)
\* [[\]()#;?]* taking j, j - 1, ..., 0 bytes at p, then the BEL form, then the CSI form.
TryIntermediates(s, p, j) ==
    IF j < 0 THEN 0
    ELSE LET a == MatchOSC(s, p + j)
             c == MatchCSI(s, p + j)
         IN  IF a # 0 THEN a
             ELSE IF c # 0 THEN c
             ELSE TryIntermediates(s, p, j - 1)

\* The whole pattern at byte i: [\x1B\x9B] then the rest.
MatchAnsi(s, i) ==
    LET p == IF s[i] = ESC THEN i + 1
             ELSE IF s[i] = 194 /\ i < Len(s) /\ s[i + 1] = CSI8 THEN i + 2
             ELSE 0
    IN  IF p = 0 THEN 0
        ELSE TryIntermediates(s, p, RunLen(s, p, Len(s), Intermediates))

RECURSIVE StripFrom(_, _)
StripFrom(s, i) ==
    IF i > Len(s) THEN <<>>
    ELSE LET e == MatchAnsi(s, i)
         IN  IF e # 0 THEN StripFrom(s, e) ELSE <<s[i]>> \o StripFrom(s, i + 1)

\* stripped := re.ReplaceAllString(string(b), "")
Strip(b) == StripFrom(b, 1)

----------------------------------------------------------------------------
(* The pieces of Write, Clear and Flush. *)

\* (changed for C7) Clear's loop stops one row early.
ClearBytesShort(h) == Rep(moveUp \o clearLine, h - 1)

\* (changed for C8) Clear's loop clears the line before it moves up.
ClearBytesSwapped(h) == Rep(clearLine \o moveUp, h)

\* (changed for C5) The appended row lacks its "\n".
AppendBytesNoNewline(b) == clearLine \o b

\* (changed for C6) Flush's first loop moves down without clearing.
TrailingBytesNoClear(c, h) == Rep(moveDown, h - c)

\* (changed for C17) Clear's loop runs once more than s.height.
ClearBytesExtra(h) == Rep(moveUp \o clearLine, h + 1)

\* Clear's loop: s.height times moveUp then clearLine.
ClearBytes(h) == Rep(moveUp \o clearLine, h)

\* strippedBufLen := utf8.RuneCountInString(stripped) - 2
StrippedBufLen(b) == RuneCountInString(Strip(b)) - 2

\* numClearLines := strippedBufLen / int(x)
NumClearLines(b, x) == GoDiv(StrippedBufLen(b), x)

\* (changed for C10) the two conditions test the previous write's length.
DeletingByPrevious(b, x, prev) ==
    /\ prev > Len(b)
    /\ \/ GoRem(prev + 1, x) = 0
       \/ GoRem(prev + 2, x) = 0

\* s.prevBufLen > len(b) && (cond1 || cond2)
Deleting(b, x, prev) ==
    /\ prev > Len(b)
    /\ \/ GoRem(StrippedBufLen(b) + 1, x) = 0
       \/ GoRem(StrippedBufLen(b) + 2, x) = 0

\* What the block guarded by x > 0 && !s.isSelect writes to the buffer.
WrapBytes(b, x, prev, sel) ==
    IF x > 0 /\ ~sel
    THEN Rep(moveUp \o clearLine, NumClearLines(b, x))
         \o (IF Deleting(b, x, prev) THEN moveUp \o clearLine ELSE <<>>)
    ELSE <<>>

\* case s.cursor == s.height: clearLine, then the line and "\n".
AppendBytes(b) == clearLine \o b \o <<LF>>
\* (changed for C9) an overwritten row is not followed by moveDown.
OverwriteBytesNoDown(b) == clearLine \o b

\* case s.cursor < s.height: clearLine, the line, moveDown.
OverwriteBytes(b) == clearLine \o b \o moveDown

\* (changed for C1) Write forgets s.height++ when it appends a row.
IncHeightForgotten(h) == h

\* s.height++ and s.cursor++
IncHeight(h) == h + 1
IncCursor(c) == c + 1

\* The int Write returns with a nil error: the n of its last buf.Write.
AppendN(b) == Len(b) + 1
OverwriteN(b) == Len(moveDown)

\* Flush's first loop: for i := s.cursor; i < s.height; i++ { clearLine; moveDown }.
TrailingBytes(c, h) == Rep(clearLine \o moveDown, h - c)

\* (changed for C4) Flush's second loop stops one row short.
RewindBytesShort(h) == Rep(moveUp, h - 1)

\* (changed for C18) Flush's second loop is left out.
RewindBytesNone(h) == <<>>

\* Flush's second loop: s.height times moveUp.
RewindBytes(h) == Rep(moveUp, h)

\* (changed for C13) the bytes the sink accepted stay in the buffer.
UnsentAll(b, m) == b

\* s.buf.WriteTo(s.w): the m bytes the sink accepted leave the buffer.
Unsent(b, m) == SubSeq(b, m + 1, Len(b))

RECURSIVE RowDelta(_, _)
\* The rows a terminal's cursor moves down while it receives s[i..]: "\n" and
\* ESC[1B one down, ESC[1A one up.
RowDelta(s, i) ==
    IF i > Len(s) THEN 0
    ELSE IF s[i] = LF THEN 1 + RowDelta(s, i + 1)
    ELSE IF i + 3 <= Len(s) /\ SubSeq(s, i, i + 3) = moveUp THEN RowDelta(s, i + 4) - 1
    ELSE IF i + 3 <= Len(s) /\ SubSeq(s, i, i + 3) = moveDown THEN RowDelta(s, i + 4) + 1
    ELSE RowDelta(s, i + 1)

\* A frame that is not tracked: no line holds the byte -1.
NoFrame == << <<-1>> >>

IsPrefix(f, g) == Len(f) <= Len(g) /\ SubSeq(g, 1, Len(f)) = f

\* The render cycle of a caller: lines are written, then Flush; Reset comes
\* first, after a successful Flush or after Reset; Clear comes after Reset;
\* Flush is called with no Reset pending and succeeds.
Broken(p, breach) == IF p = "kept" /\ breach THEN "broken" ELSE p

----------------------------------------------------------------------------
(* New *)

New(sel) ==
    /\ buf = <<>>
    /\ reset = FALSE
    /\ cursor = 0
    /\ height = 0
    /\ prevBufLen = 0
    /\ isSelect = sel
    /\ out = <<>>
    /\ outCalls = 0
    /\ termRow = 0
    /\ lastOp = "New"
    /\ lastLine = <<>>
    /\ lastWidth = 0
    /\ lastErr = "nil"
    /\ lastN = 0
    /\ run = 0
    /\ frame = <<>>
    /\ replay = NoFrame
    /\ queued = -1
    /\ proto = "kept"

----------------------------------------------------------------------------
(* Reset *)

\* (changed for C16) Reset sets s.reset and forgets s.buf.Reset().
ResetKeepsBuffer ==
    /\ reset' = TRUE
    /\ UNCHANGED <<buf, cursor, height, prevBufLen, isSelect, termRow>>
    /\ out' = <<>>
    /\ outCalls' = 0
    /\ lastOp' = "Reset"
    /\ lastLine' = <<>>
    /\ lastWidth' = 0
    /\ lastErr' = "nil"
    /\ lastN' = 0
    /\ run' = -1
    /\ frame' = NoFrame
    /\ replay' = NoFrame
    /\ queued' = -1
    /\ proto' = proto

Reset ==
    /\ buf' = <<>>
    /\ reset' = TRUE
    /\ UNCHANGED <<cursor, height, prevBufLen, isSelect, termRow>>
    /\ out' = <<>>
    /\ outCalls' = 0
    /\ lastOp' = "Reset"
    /\ lastLine' = <<>>
    /\ lastWidth' = 0
    /\ lastErr' = "nil"
    /\ lastN' = 0
    /\ run' = -1
    /\ frame' = NoFrame
    /\ replay' = NoFrame
    /\ queued' = -1
    /\ proto' = Broken(proto, ~(lastOp \in {"New", "Reset"}
                                \/ (lastOp = "Flush" /\ lastErr = "nil")))

----------------------------------------------------------------------------
(* Clear (bytes.Buffer.Write never returns an error) *)

Clear ==
    /\ Len(buf) <= MaxBuf
    /\ buf' = buf \o ClearBytes(height)
    /\ cursor' = 0
    /\ height' = 0
    /\ reset' = FALSE
    /\ UNCHANGED <<prevBufLen, isSelect, termRow, queued>>
    /\ out' = <<>>
    /\ outCalls' = 0
    /\ lastOp' = "Clear"
    /\ lastLine' = <<>>
    /\ lastWidth' = 0
    /\ lastErr' = "nil"
    /\ lastN' = 0
    /\ run' = -1
    /\ frame' = <<>>
    /\ replay' = NoFrame
    /\ proto' = Broken(proto, lastOp # "Reset")

----------------------------------------------------------------------------
(* Write(b), with x, xerr what terminal.Width() answers (xerr: an error).   *)
(* op tells Write from WriteString, which calls s.Write([]byte(str)).       *)

WriteCall(op, b, x, xerr) ==
    LET bad     == ContainsCRLF(b)
        \* if s.reset { s.Clear() }
        buf1    == IF reset THEN buf \o ClearBytes(height) ELSE buf
        cursor1 == IF reset THEN 0 ELSE cursor
        height1 == IF reset THEN 0 ELSE height
        \* if x > 0 && !s.isSelect { ... }
        buf2    == buf1 \o WrapBytes(b, x, prevBufLen, isSelect)
        ok      == ~bad /\ ~xerr /\ cursor1 <= height1
        frame1  == IF reset THEN <<>> ELSE frame
    IN  /\ xerr => x = 0
        /\ ~bad => Len(buf) <= MaxBuf
        /\ (ok /\ cursor1 = height1) => height1 < MaxHeight
        /\ lastOp' = op
        /\ lastLine' = b
        /\ UNCHANGED <<isSelect, termRow, queued>>
        /\ out' = <<>>
        /\ outCalls' = 0
        /\ IF bad
           THEN \* return 0, fmt.Errorf("%q should not contain either \\r or \\n", b)
                /\ UNCHANGED <<buf, reset, cursor, height, prevBufLen>>
                /\ lastWidth' = 0
                /\ lastErr' = "input"
                /\ lastN' = 0
           ELSE IF xerr
           THEN \* x, err := terminal.Width(); if err != nil { return 0, err }
                /\ buf' = buf1
                /\ cursor' = cursor1
                /\ height' = height1
                /\ reset' = FALSE
                /\ UNCHANGED prevBufLen
                /\ lastWidth' = 0
                /\ lastErr' = "width"
                /\ lastN' = 0
           ELSE /\ reset' = FALSE
                /\ prevBufLen' = Len(b)
                /\ lastWidth' = x
                /\ IF cursor1 = height1
                   THEN /\ buf' = buf2 \o AppendBytes(b)
                        /\ height' = IncHeight(height1)
                        /\ cursor' = IncCursor(cursor1)
                        /\ lastErr' = "nil"
                        /\ lastN' = AppendN(b)
                   ELSE IF cursor1 < height1
                   THEN /\ buf' = buf2 \o OverwriteBytes(b)
                        /\ height' = height1
                        /\ cursor' = IncCursor(cursor1)
                        /\ lastErr' = "nil"
                        /\ lastN' = OverwriteN(b)
                   ELSE \* default: Invalid write cursor position
                        /\ buf' = buf2
                        /\ height' = height1
                        /\ cursor' = cursor1
                        /\ lastErr' = "cursor"
                        /\ lastN' = 0
        /\ run' = IF run >= 0 /\ ~bad /\ run <= MaxHeight THEN run + 1 ELSE -1
        /\ frame' = IF bad THEN frame
                    ELSE IF ok /\ frame1 # NoFrame THEN Append(frame1, b)
                    ELSE frame1
        /\ replay' = IF bad THEN replay
                     ELSE IF reset THEN NoFrame
                     ELSE IF ~ok THEN replay
                     ELSE IF replay # NoFrame /\ frame # NoFrame
                             /\ IsPrefix(Append(frame, b), replay) THEN replay
                     ELSE NoFrame
        /\ proto' = IF ok /\ RowDelta(b, 1) # 0 THEN "text" ELSE proto

----------------------------------------------------------------------------
(* Flush.  s.buf.WriteTo(s.w) calls s.w.Write once with the whole buffer   *)
(* unless the buffer is empty; the sink accepts m of its n bytes and may    *)
(* report an error (m < n without one is io.ErrShortWrite); the accepted    *)
(* bytes leave the buffer.  follow: a terminal is attached to s.w and its   *)
(* cursor row is followed (termRow); otherwise termRow stays 0.             *)

FlushCall(m, werr, follow) ==
    LET buf1 == buf \o TrailingBytes(cursor, height)
        n    == Len(buf1)
        fail == n > 0 /\ (werr \/ m < n)
        sent == IF n = 0 THEN <<>> ELSE SubSeq(buf1, 1, m)
        row  == IF follow THEN termRow + RowDelta(sent, 1) ELSE termRow
    IN  /\ m \in 0..n
        /\ n = 0 => (m = 0 /\ ~werr)
        /\ fail => Len(buf) <= MaxBuf
        /\ row >= -MaxRow /\ row <= MaxRow
        /\ out' = sent
        /\ outCalls' = IF n = 0 THEN 0 ELSE 1
        /\ termRow' = row
        /\ lastOp' = "Flush"
        /\ lastLine' = <<>>
        /\ lastWidth' = 0
        /\ lastN' = 0
        /\ UNCHANGED <<reset, height, prevBufLen, isSelect>>
        /\ run' = -1
        /\ proto' = Broken(proto, reset \/ fail)
        /\ IF fail
           THEN \* if err != nil { return err }
                /\ buf' = Unsent(buf1, m)
                /\ UNCHANGED cursor
                /\ lastErr' = "io"
                /\ frame' = NoFrame
                /\ replay' = NoFrame
                /\ queued' = IF m > 0 THEN -1 ELSE queued
           ELSE /\ buf' = RewindBytes(height)
                /\ cursor' = 0
                /\ lastErr' = "nil"
                /\ frame' = <<>>
                /\ replay' = IF frame # NoFrame /\ Len(frame) = height
                             THEN frame ELSE NoFrame
                /\ queued' = height

----------------------------------------------------------------------------------------------------------------------------------------
(* The callers: any call at any time, with lines and terminal widths drawn  *)
(* from small sets.                                                         *)

La == <<97>>                                    \* "a"
Lbc == <<98, 99>>                               \* "bc"
Labcde == <<97, 98, 99, 100, 101>>              \* "abcde"
Lup == <<ESC, LBRACKET, 49, 65>>                \* "\033[1A": text that moves the cursor
Lbold == <<ESC, LBRACKET, 49, 109, 97, 98, 99, 100, 101>>   \* "\033[1mabcde"
Lnl == <<97, LF>>                               \* "a\n"
Lcr == <<CR>>                                   \* "\r"

Lines == {La, Lbc, Lbold, Lnl, Lcr}
Widths == {0, 3}

\* The byte counts a failing sink reports: nothing taken, or everything.
SinkTakes(n) == {0, n}

Init == \E sel \in BOOLEAN : New(sel)

Write == \E b \in Lines, x \in Widths, xerr \in BOOLEAN : WriteCall("Write", b, x, xerr)

WriteString ==
    \E b \in Lines, x \in Widths, xerr \in BOOLEAN : WriteCall("WriteString", b, x, xerr)

Flush ==
    \E m \in SinkTakes(Len(buf \o TrailingBytes(cursor, height))), werr \in BOOLEAN :
        FlushCall(m, werr, FALSE)

Next == Write \/ WriteString \/ Reset \/ Clear \/ Flush

Spec == Init /\ [][Next]_vars

----------------------------------------------------------------------------
(* The same calls with a terminal attached to the sink.                     *)

TermLines == {La, Labcde, Lup}
TermWidths == {3}

WriteTerm == \E b \in TermLines, x \in TermWidths, xerr \in BOOLEAN : WriteCall("Write", b, x, xerr)

FlushTerm ==
    \E m \in SinkTakes(Len(buf \o TrailingBytes(cursor, height))), werr \in BOOLEAN :
        FlushCall(m, werr, TRUE)

NextTerm == WriteTerm \/ Reset \/ Clear \/ FlushTerm

SpecTerm == Init /\ [][NextTerm]_vars

----------------------------------------------------------------------------
(* A prompt line edited on a terminal 10 columns wide, in wrap-aware mode.  *)

Lfour == <<97, 98, 99, 100>>                                    \* "abcd"
Lnine == <<97, 98, 99, 100, 101, 102, 103, 104, 105>>           \* "abcdefghi"
Lten == Lnine \o <<106>>                                        \* "abcdefghij"
Ltwelve == Lten \o <<107, 108>>                                 \* "abcdefghijkl"

WrapLines == {La, Lfour, Lnine, Lten, Ltwelve}
WrapWidth == 10

InitWrap == New(FALSE)

WriteWrap == \E b \in WrapLines : WriteCall("Write", b, WrapWidth, FALSE)

NextWrap == WriteWrap \/ Reset \/ Clear \/ Flush

SpecWrap == InitWrap /\ [][NextWrap]_vars

----------------------------------------------------------------------------
(* What the claims speak of, said without the operators of the model.       *)

Writes == {"Write", "WriteString"}

\* The line holds a "\r" (13) or a "\n" (10).
HasTerminator(b) == \E i \in 1..Len(b) : b[i] = 13 \/ b[i] = 10

\* n times move-up then clear-line.
UpClearPairs(n) == Rep(moveUp \o clearLine, n)

\* n times clear-line then move-down.
ClearDownPairs(n) == Rep(clearLine \o moveDown, n)

RECURSIVE NewRows(_)
\* For each line of f in turn: clear-line, the line, newline.
NewRows(f) ==
    IF f = <<>> THEN <<>> ELSE clearLine \o Head(f) \o <<10>> \o NewRows(Tail(f))

RECURSIVE SameRows(_)
\* For each line of f in turn: clear-line, the line, move-down.
SameRows(f) ==
    IF f = <<>> THEN <<>> ELSE clearLine \o Head(f) \o moveDown \o SameRows(Tail(f))

\* No line of the frame f moves the terminal's cursor by itself.
PlainFrame(f) == \A i \in 1..Len(f) : RowDelta(f[i], 1) = 0

\* The characters of a line that a terminal shows: its escape sequences show nothing.
VisibleLen(b) ==
    CASE b = Lbold -> 5
      [] b = Lup -> 0
      [] OTHER -> Len(b)

\* n is a multiple of x (n >= -1, x > 0).
Divides(x, n) == \E k \in -1..(n + 1) : n = k * x

\* The wrap-compensation pairs of a Write of b, the terminal being x wide and
\* the previous write prev bytes long.
ExtraPairs(b, x, prev, sel) ==
    IF sel \/ x = 0 THEN 0
    ELSE (IF VisibleLen(b) >= 2 THEN (VisibleLen(b) - 2) \div x ELSE 0)
         + (IF prev > Len(b) /\ (Divides(x, VisibleLen(b) - 1) \/ Divides(x, VisibleLen(b)))
            THEN 1 ELSE 0)

----------------------------------------------------------------------------
(* C1 *)

\* C1: in every state reachable by any calls, failing ones included,
\* cursorRow <= renderedHeight and both counters are >= 0.
C1_CursorWithinHeight == cursor <= height /\ cursor >= 0 /\ height >= 0

\* A failing Write in the middle of a frame that overwrites a taller one.
C1_Witness ==
    /\ lastOp = "Write" /\ lastErr = "input"
    /\ cursor = 1 /\ height = MaxHeight

----------------------------------------------------------------------------
(* C2 *)

\* C2: after n consecutive Write calls of lines without "\r" or "\n" on a fresh
\* ScreenBuf, and no other call, height = n and cursor = height, and every one
\* of the calls succeeded.
C2_FreshWrites ==
    run >= 0 => /\ height = run
                /\ cursor = height
                /\ run > 0 => lastErr = "nil"

----------------------------------------------------------------------------
(* C3 *)

\* C3: in any state, Write or WriteString of a line that holds "\r" or "\n"
\* returns the invalid-input error and 0, and changes none of buf, reset,
\* cursor, height and prevBufLen.
C3_TerminatorRejected ==
    [][ (lastOp' \in Writes /\ HasTerminator(lastLine'))
        => /\ lastErr' = "input"
           /\ lastN' = 0
           /\ UNCHANGED <<buf, reset, cursor, height, prevBufLen>> ]_vars

\* A "\r" line refused while a Reset is pending over a drawn frame.
C3_Witness ==
    /\ lastOp = "WriteString" /\ lastLine = Lcr /\ lastErr = "input" /\ lastN = 0
    /\ reset /\ height = 2 /\ buf = <<>>

----------------------------------------------------------------------------
(* C4 *)

\* C4 as claimed (for lines that hold no cursor-movement sequence): after every
\* successful Flush cursor = 0; and when the frame flushed before is written
\* again line for line (no Reset, no Clear) and flushed, the terminal's row,
\* counted from the bytes the sink got, is what it was after the flush before,
\* and height is still the number of lines, whatever isSelect.
C4_Original ==
    [][ (lastOp' = "Flush" /\ lastErr' = "nil")
        => /\ cursor' = 0
           /\ (replay # NoFrame /\ frame = replay /\ PlainFrame(frame))
              => /\ termRow' = termRow
                 /\ height' = Len(frame) ]_vars

\* C4 amended: after every successful Flush cursor = 0; and with isSelect set,
\* when the frame flushed before, of lines that hold no cursor-movement
\* sequence, is written again line for line (no Reset, no Clear) and flushed,
\* the terminal's row, counted from the bytes the sink got, is what it was
\* after the flush before, and height is still the number of lines.
C4_RedrawSameFrame ==
    [][ (lastOp' = "Flush" /\ lastErr' = "nil")
        => /\ cursor' = 0
           /\ (replay # NoFrame /\ frame = replay /\ PlainFrame(frame) /\ isSelect)
              => /\ termRow' = termRow
                 /\ height' = Len(frame) ]_vars

\* The frame "a", "abcde" drawn a second time over itself.
C4_Witness ==
    /\ lastOp = "Flush" /\ lastErr = "nil" /\ isSelect
    /\ replay = <<La, Labcde>>
    /\ out = Rep(moveUp, 2) \o SameRows(<<La, Labcde>>)
    /\ termRow = 2 /\ height = 2 /\ cursor = 0

----------------------------------------------------------------------------
(* C5 *)

\* C5: on a fresh ScreenBuf with isSelect set, writing lines l1..ln and calling
\* Flush hands the sink exactly clearLine + li + "\n" for i = 1..n, and leaves
\* height = n, cursor = 0 and exactly n moveUp in the buffer, not handed over.
C5_FirstFrame ==
    [][ (lastOp' = "Flush" /\ lastErr' = "nil" /\ run >= 0 /\ isSelect)
        => /\ out' = NewRows(frame)
           /\ height' = Len(frame)
           /\ cursor' = 0
           /\ buf' = Rep(moveUp, Len(frame)) ]_vars

\* The first frame "a", "bc", "a" handed to the sink.
C5_Witness ==
    /\ lastOp = "Flush" /\ lastErr = "nil" /\ isSelect
    /\ out = clearLine \o La \o <<10>> \o clearLine \o Lbc \o <<10>> \o clearLine \o La \o <<10>>
    /\ buf = moveUp \o moveUp \o moveUp
    /\ height = 3 /\ cursor = 0

----------------------------------------------------------------------------
(* C6 *)

\* C6: when the frame flushed before has height h and this frame wrote only
\* k < h lines (no Reset, no Clear), Flush appends exactly h - k times
\* clearLine + moveDown after the k rewritten rows, and what the sink gets is
\* the buffer with these pairs at its end.
C6_ShrunkFrame ==
    [][ (lastOp' = "Flush" /\ frame # NoFrame /\ Len(frame) < height)
        => /\ cursor = Len(frame)
           /\ isSelect => buf = Rep(moveUp, height) \o SameRows(frame)
           /\ (IF lastErr' = "nil" THEN out' ELSE out' \o buf')
                 = buf \o ClearDownPairs(height - Len(frame))
           /\ height' = height ]_vars

\* A frame of 3 rows redrawn with the single line "a".
C6_Witness ==
    /\ lastOp = "Flush" /\ lastErr = "nil" /\ height = 3
    /\ out = Rep(moveUp, 3) \o clearLine \o La \o moveDown
               \o clearLine \o moveDown \o clearLine \o moveDown

----------------------------------------------------------------------------
(* C7 *)

\* C7 as claimed: Reset followed by a Write of a valid line puts in the buffer
\* exactly height times moveUp + clearLine, then clearLine + line + "\n" and
\* nothing else, whatever isSelect; then reset is false and height = cursor = 1.
C7_Original ==
    [][ (lastOp = "Reset" /\ lastOp' \in Writes /\ ~HasTerminator(lastLine')
            /\ lastErr' = "nil")
        => /\ buf' = UpClearPairs(height) \o clearLine \o lastLine' \o <<10>>
           /\ ~reset'
           /\ height' = 1 /\ cursor' = 1 ]_vars

\* C7 amended: Reset followed by a Write of a valid line puts in the buffer
\* exactly height times moveUp + clearLine; a Write that succeeds adds
\* clearLine + line + "\n", preceded, when isSelect is false and the width is
\* positive, by its wrap-compensation pairs, and leaves reset false and
\* height = cursor = 1; a Write whose width query fails adds nothing more and
\* leaves reset false and height = cursor = 0.
C7_ResetThenWrite ==
    [][ (lastOp = "Reset" /\ lastOp' \in Writes /\ ~HasTerminator(lastLine'))
        => /\ ~reset'
           /\ IF lastErr' = "nil"
              THEN /\ buf' = UpClearPairs(height)
                               \o UpClearPairs(ExtraPairs(lastLine', lastWidth',
                                                          prevBufLen, isSelect))
                               \o clearLine \o lastLine' \o <<10>>
                   /\ height' = 1 /\ cursor' = 1
              ELSE /\ lastErr' = "width"
                   /\ buf' = UpClearPairs(height)
                   /\ height' = 0 /\ cursor' = 0 ]_vars

\* Two rows cleared, then "a" after a longer line: one compensation pair.
C7_Witness ==
    /\ lastOp = "Write" /\ lastErr = "nil" /\ ~isSelect /\ lastWidth = 3
    /\ buf = UpClearPairs(2) \o moveUp \o clearLine \o clearLine \o La \o <<10>>
    /\ height = 1 /\ cursor = 1 /\ ~reset

----------------------------------------------------------------------------
(* C8 *)

\* C8 as claimed: after Reset the next Write or Flush, whichever comes first,
\* emits the height moveUp + clearLine pairs, sets height and cursor to 0
\* before its own work, and clears reset.
C8_Original ==
    [][ (reset /\ \/ lastOp' \in Writes /\ ~HasTerminator(lastLine')
                  \/ lastOp' = "Flush" /\ lastErr' = "nil")
        => /\ ~reset'
           /\ IsPrefix(buf \o UpClearPairs(height),
                       IF lastOp' = "Flush" THEN out' ELSE buf')
           /\ LET own == IF lastOp' \in Writes /\ lastErr' = "nil" THEN 1 ELSE 0
              IN  height' = own /\ cursor' = own ]_vars

\* C8 amended: after Reset the clear is performed by the next Write of a
\* valid line, which emits the height moveUp + clearLine pairs, sets height and
\* cursor to 0 before its own work and clears reset.  Flush does not perform
\* it: it emits its clearLine + moveDown pairs only and leaves height
\* unchanged and reset set.
C8_ClearDeferredToWrite ==
    [][ /\ (reset /\ lastOp' \in Writes /\ ~HasTerminator(lastLine'))
           => /\ ~reset'
              /\ IsPrefix(buf \o UpClearPairs(height), buf')
              /\ LET own == IF lastErr' = "nil" THEN 1 ELSE 0
                 IN  height' = own /\ cursor' = own
        /\ (reset /\ lastOp' = "Flush")
           => /\ reset'
              /\ height' = height
              /\ (IF lastErr' = "nil" THEN out' ELSE out' \o buf')
                    = buf \o ClearDownPairs(height - cursor) ]_vars

\* Reset, then Flush, over a frame of 2 rows: the rows are not cleared upward.
C8_Witness ==
    /\ lastOp = "Flush" /\ lastErr = "nil" /\ reset /\ height = 2
    /\ out = ClearDownPairs(2)
    /\ buf = Rep(moveUp, 2)

----------------------------------------------------------------------------
(* C9 *)

\* C9 as claimed (for lines that hold no cursor-movement sequence): with
\* isSelect set, after every successful Flush reached by any calls of Write,
\* Reset, Clear and Flush, the terminal's row, counted from the top of the
\* drawn region by the bytes the sink got, equals height.
C9_Original ==
    (lastOp = "Flush" /\ lastErr = "nil" /\ isSelect /\ proto # "text")
        => termRow = height

\* C9 amended: with isSelect set, after every successful Flush reached by
\* calls that follow the render protocol (Reset only first, after a successful
\* Flush or after Reset; Clear only after Reset; Flush with no Reset pending
\* and never failing; no line holding a cursor-movement sequence), the
\* terminal's row, counted from the top of the drawn region by the bytes the
\* sink got, equals height.
C9_RowIsHeightInProtocol ==
    (lastOp = "Flush" /\ lastErr = "nil" /\ isSelect /\ proto = "kept")
        => termRow = height

\* A frame of 2 rows, then Reset and a frame of the single line "a".
C9_Witness ==
    /\ lastOp = "Flush" /\ lastErr = "nil" /\ isSelect /\ proto = "kept"
    /\ out = UpClearPairs(2) \o NewRows(<<La>>)
    /\ termRow = 1 /\ height = 1

----------------------------------------------------------------------------
(* C10 *)

\* What a pending Reset makes the next Write emit first.
PendingClear == IF reset THEN UpClearPairs(height) ELSE <<>>

\* The step is a Write of "abcd" on a terminal 10 wide, with isSelect false,
\* the Write before it having been of the 9 characters "abcdefghi".
FourAfterNine ==
    /\ lastOp' = "Write" /\ lastErr' = "nil" /\ lastLine' = Lfour
    /\ lastWidth' = 10 /\ ~isSelect
    /\ prevBufLen = Len(Lnine)

\* The step adds k move-up + clear-line pairs and then the row of the line.
EmitsPairsThenRow(k) ==
    \E tail \in {<<10>>, moveDown} :
        buf' = buf \o PendingClear \o UpClearPairs(k) \o clearLine \o lastLine' \o tail

----------------------------------------------------------------------------
(* C11 *)

\* The counters before the row of a Write: a pending Reset sets them to 0.
HeightBeforeRow == IF reset THEN 0 ELSE height
CursorBeforeRow == IF reset THEN 0 ELSE cursor

\* C11: a Write of a valid line while the terminal's width is not known (the
\* width query answers 0 or fails) succeeds, emits the pending clear, if any,
\* then clearLine + line + "\n" or moveDown and no other pair, and counts the
\* row: cursor one more, height one more when the row is appended.
C11_UnknownWidthTolerated ==
    [][ (lastOp' \in Writes /\ ~HasTerminator(lastLine') /\ lastWidth' = 0)
        => /\ lastErr' = "nil"
           /\ EmitsPairsThenRow(0)
           /\ ~reset'
           /\ cursor' = CursorBeforeRow + 1
           /\ height' = IF CursorBeforeRow = HeightBeforeRow
                         THEN HeightBeforeRow + 1 ELSE HeightBeforeRow ]_vars

----------------------------------------------------------------------------
(* C12 *)

\* C12: every step that changes height is a successful Write at
\* cursor = height (after the clear of a pending Reset, if any) that leaves
\* height one above what it wrote on, or the Clear protocol setting it to 0;
\* an overwriting Write, a failing Write and Flush never change height.
C12_HeightSteps ==
    [][ /\ height' # height
           => \/ /\ lastOp' \in Writes /\ lastErr' = "nil"
                 /\ CursorBeforeRow = HeightBeforeRow
                 /\ height' = HeightBeforeRow + 1
              \/ lastOp' = "Clear" /\ height' = 0
        /\ (lastOp' \in Writes /\ lastErr' # "nil") => height' = height
        /\ (lastOp' \in Writes /\ lastErr' = "nil" /\ CursorBeforeRow < HeightBeforeRow)
              => height' = height
        /\ lastOp' = "Flush" => height' = height ]_vars

----------------------------------------------------------------------------
(* C13 *)

\* What Flush has to hand to the sink: the buffer and the clears of the rows
\* this frame left unwritten.
WholeBuffer == buf \o ClearDownPairs(height - cursor)

\* C13: Write, WriteString, Reset and Clear make no call on the sink.  Flush
\* hands the sink the whole buffer, trailing clears included, in one call (no
\* call when there is nothing to hand over); what the sink took is no longer
\* in the buffer, so no later Flush delivers it again: after a successful
\* Flush the buffer holds only the newly queued moveUp, after a failed one
\* exactly the bytes the sink did not take.
C13_SinkOnlyThroughFlush ==
    [][ /\ lastOp' # "Flush" => (outCalls' = 0 /\ out' = <<>>)
        /\ lastOp' = "Flush"
           => /\ outCalls' = IF WholeBuffer = <<>> THEN 0 ELSE 1
              /\ IF lastErr' = "nil"
                 THEN out' = WholeBuffer /\ buf' = Rep(moveUp, height)
                 ELSE out' \o buf' = WholeBuffer ]_vars

\* A second frame of one line handed over in one call behind the queued moveUp.
C13_Witness ==
    /\ lastOp = "Flush" /\ lastErr = "nil" /\ outCalls = 1
    /\ out = moveUp \o clearLine \o Lbc \o moveDown
    /\ buf = moveUp /\ isSelect

----------------------------------------------------------------------------
(* C14 *)

\* C14: a successful Write or WriteString returns the number of bytes of the
\* caller's line, len(line), the same whether the row is appended or
\* overwritten.
C14_ReturnsLineLength ==
    [][ (lastOp' \in Writes /\ lastErr' = "nil") => lastN' = Len(lastLine') ]_vars

----------------------------------------------------------------------------
(* C16 *)

\* C16: Reset in any state empties the buffer and sets reset, leaves cursor,
\* height and prevBufLen as they are and makes no call on the sink; a second
\* Reset directly after it changes nothing.
C16_ResetEffect ==
    [][ lastOp' = "Reset"
        => /\ buf' = <<>>
           /\ reset'
           /\ UNCHANGED <<cursor, height, prevBufLen>>
           /\ outCalls' = 0 /\ out' = <<>>
           /\ lastOp = "Reset"
              => UNCHANGED <<buf, reset, cursor, height, prevBufLen, isSelect>> ]_vars

\* Two rows written and dropped by Reset before any Flush.
C16_Witness ==
    /\ lastOp = "Reset" /\ buf = <<>> /\ reset
    /\ cursor = 2 /\ height = 2 /\ prevBufLen = 2 /\ termRow = 0

----------------------------------------------------------------------------
(* C17 *)

\* C17: Clear with height = h appends to the buffer exactly h times
\* moveUp + clearLine and nothing else (nothing when h = 0), and leaves
\* cursor = 0, height = 0 and reset false.
C17_ClearEffect ==
    [][ lastOp' = "Clear"
        => /\ buf' = buf \o UpClearPairs(height)
           /\ height = 0 => buf' = buf
           /\ cursor' = 0 /\ height' = 0 /\ ~reset' ]_vars

\* Clear called on a flushed frame of 2 rows, behind the 2 queued moveUp.
C17_Witness ==
    /\ lastOp = "Clear"
    /\ buf = moveUp \o moveUp \o moveUp \o clearLine \o moveUp \o clearLine
    /\ cursor = 0 /\ height = 0 /\ ~reset

----------------------------------------------------------------------------
(* C18 *)

\* The moveUp a successful Flush queued and that still head the buffer.
QueuedMoveUps == Rep(moveUp, queued)

\* C18 as claimed: a successful Flush leaves height and reset unchanged and
\* the buffer holding exactly height moveUp; it does not deliver them, and
\* unless a Reset came in between it is the next successful Flush that
\* delivers them, as its first bytes: a Flush that delivers bytes while they
\* are queued is a successful one and delivers them first.
C18_Original ==
    [][ /\ (lastOp' = "Flush" /\ lastErr' = "nil")
           => /\ height' = height /\ reset' = reset
              /\ buf' = Rep(moveUp, height)
              /\ out' = WholeBuffer
        /\ (lastOp' = "Flush" /\ queued > 0 /\ out' # <<>>)
           => /\ lastErr' = "nil"
              /\ IsPrefix(QueuedMoveUps, out') ]_vars

\* C18 amended: a successful Flush leaves height and reset unchanged and the
\* buffer holding exactly height moveUp; it does not deliver them, and unless
\* a Reset came in between they are the first bytes the next Flush hands to
\* the sink, whether that Flush then succeeds or fails.
C18_QueuedForNextFlush ==
    [][ /\ (lastOp' = "Flush" /\ lastErr' = "nil")
           => /\ height' = height /\ reset' = reset
              /\ buf' = Rep(moveUp, height)
              /\ out' = WholeBuffer
        /\ (lastOp' = "Flush" /\ queued > 0)
           => /\ IsPrefix(QueuedMoveUps, WholeBuffer)
              /\ out' # <<>> => IsPrefix(QueuedMoveUps, out') ]_vars

\* A frame of 2 rows redrawn with a third row: the 2 queued moveUp go out
\* first and 3 are queued.
C18_Witness ==
    /\ lastOp = "Flush" /\ lastErr = "nil" /\ isSelect
    /\ out = moveUp \o moveUp \o SameRows(<<La, Lbc>>) \o NewRows(<<La>>)
    /\ buf = moveUp \o moveUp \o moveUp
    /\ height = 3 /\ ~reset

----------------------------------------------------------------------------
(* C19 *)

\* C19: with isSelect false and a width w > 0, a Write of a line whose visible
\* length is below w emits no moveUp + clearLine pair of its own, whatever the
\* length of the write before: after the pending clear, if any, it emits
\* only clearLine + line and then "\n" or moveDown.
C19_NoPairBelowWidth ==
    [][ (lastOp' = "Write" /\ lastErr' = "nil" /\ ~isSelect
            /\ lastWidth' > 0 /\ VisibleLen(lastLine') < lastWidth')
        => EmitsPairsThenRow(0) ]_vars

====
